---- MODULE Spec2Model ----
(***************************************************************************)
(* Model of crates/next-api/src/module_graph.rs: construction of a         *)
(* SingleModuleGraph (new_inner), its two traversals (traverse_from_entry  *)
(* and traverse_edges_from_entry) and the per-endpoint queries of the      *)
(* NextDynamicGraph, ServerActionsGraph and ClientReferencesGraph views,   *)
(* the chain of graphs of an endpoint (get_module_graph_for_endpoint) and  *)
(* the merging queries of ReducedGraphs.                                   *)
(*                                                                         *)
(* Modules are the numbers 1..NumModules; 0 stands for Option::None.  The  *)
(* petgraph DiGraph is a sequence of node weights (the NodeIndex of a node *)
(* is its position) and a sequence of edges in insertion order.            *)
(***************************************************************************)
EXTENDS Integers, Sequences, FiniteSets, TLC

\* Bounds of the model.
NumModules == 4
MaxRefs == 2
MaxEdges == 3
MaxEntries == 2
NumAnnot == 1
MaxServerUtils == 1
MaxServerComponents == 2

Modules == 1..NumModules
None == 0

VARIABLES
    refs,             \* primary_referenced_modules: module -> list of modules
    isMap,            \* the modules whose path has the extension "map"
    kind,             \* which concrete module type a module downcasts to
    annot,            \* modules carrying next/dynamic imports or server actions
    server_utils,     \* find_server_entries' answer for the endpoint
    server_component_entries,
    op,               \* the operation that ran last
    root,             \* new_inner's arguments of the last construction
    entries,
    visited_modules,
    graph,            \* the SingleModuleGraph constructed last
    graphs,           \* the graphs of the ReducedGraphs, in order
    construction,     \* locals of a running new_inner: stack, graph, modules
    is_single_page,   \* the flag of the views over graph and graphs
    entry,            \* the entry argument of the last query or traversal
    walk,             \* locals of a running traverse_edges_from_entry
    calls,            \* the visitor invocations of the last traversal, in order
    stack_log,        \* the pushes and pops of the running traversal, in order
    result            \* what the last query or traversal returned

vars == <<refs, isMap, kind, annot, server_utils, server_component_entries, op,
          root, entries, visited_modules, graph, graphs, construction,
          is_single_page, entry, walk, calls, stack_log, result>>

env == <<refs, isMap, kind, annot, server_utils, server_component_entries>>
built == <<root, entries, visited_modules, graph, graphs, construction, is_single_page>>
query == <<entry, walk, calls, stack_log, result>>

Range(s) == {s[i] : i \in DOMAIN s}

Last(s) == s[Len(s)]

Front(s) == SubSeq(s, 1, Len(s) - 1)

RECURSIVE SumTo(_, _)
SumTo(f, n) == IF n = 0 THEN 0 ELSE f[n] + SumTo(f, n - 1)

(***************************************************************************)
(* The environment: the reference relation of the application and the      *)
(* module kinds.  Every module has at most MaxRefs references (the same    *)
(* target may be named twice) and there are at most MaxEdges references    *)
(* in all.                                                                 *)
(***************************************************************************)
RefLengths == {l \in [Modules -> 0..MaxRefs] : SumTo(l, NumModules) <= MaxEdges}

RefsOf(l, targets) ==
    [m \in Modules |-> SubSeq(targets, SumTo(l, m - 1) + 1, SumTo(l, m))]

RefRelations ==
    UNION {{RefsOf(l, t) : t \in [1..SumTo(l, NumModules) -> Modules]} : l \in RefLengths}

EntryLists == UNION {[1..n -> Modules] : n \in 0..MaxEntries}

Kinds == {"None", "EcmascriptClientReference", "CssClientReference", "ServerComponent"}

DefaultGraph == [nodes |-> <<>>, edges |-> <<>>, entries |-> <<>>]

NoConstruction == [stack |-> <<>>, nodes |-> <<>>, modules |-> <<>>, edges |-> <<>>]

NoWalk == [stack |-> <<>>, discovered |-> {}, node |-> None, succs |-> <<>>]

(***************************************************************************)
(* SingleModuleGraph::new_inner                                            *)
(***************************************************************************)
\* line 96: the reference's path has the extension "map"
IsSourceMap_Never(reference) == FALSE

IsSourceMap(reference) == reference \in isMap

\* line 79: a module reached through a parent that another graph already holds
SkipVisited_Never(parent_idx, module, visited) == FALSE

SkipVisited_Entries(parent_idx, module, visited) == module \in visited

SkipVisited(parent_idx, module, visited) ==
    parent_idx # None /\ module \in visited

\* lines 95-100: the stack entries pushed for the references of module
RECURSIVE PushReferences(_, _)
PushReferences(idx, references) ==
    IF references = <<>> THEN <<>>
    ELSE IF IsSourceMap(Head(references)) THEN PushReferences(idx, Tail(references))
    ELSE <<<<idx, Head(references)>>>> \o PushReferences(idx, Tail(references))

\* lines 82-86: the module has a node already
AddEdgeToKnown_Once(edges, parent_idx, idx) ==
    IF parent_idx # None /\ <<parent_idx, idx>> \notin Range(edges)
    THEN Append(edges, <<parent_idx, idx>>)
    ELSE edges

AddEdgeToKnown_Never(edges, parent_idx, idx) == edges

AddEdgeToKnown(edges, parent_idx, idx) ==
    IF parent_idx # None THEN Append(edges, <<parent_idx, idx>>) ELSE edges

\* lines 77-101: one iteration of the loop over the stack
NewInnerStep(st, visited) ==
    LET parent_idx == Last(st.stack)[1]
        module == Last(st.stack)[2]
        popped == [st EXCEPT !.stack = Front(st.stack)]
    IN  IF SkipVisited(parent_idx, module, visited) THEN popped
        ELSE IF module \in DOMAIN st.modules
        THEN [popped EXCEPT !.edges = AddEdgeToKnown(@, parent_idx, st.modules[module])]
        ELSE LET idx == Len(st.nodes) + 1
             IN  [stack |-> Front(st.stack) \o PushReferences(idx, refs[module]),
                  nodes |-> Append(st.nodes, module),
                  modules |-> (module :> idx) @@ st.modules,
                  edges |-> IF parent_idx # None
                            THEN Append(st.edges, <<parent_idx, idx>>)
                            ELSE st.edges]

RECURSIVE NewInnerLoop(_, _)
NewInnerLoop(st, visited) ==
    IF st.stack = <<>> THEN st ELSE NewInnerLoop(NewInnerStep(st, visited), visited)

\* lines 103-113: the root is added unless the walk found it
AddsRoot(r, modules) == r # None /\ r \notin DOMAIN modules

\* lines 73-76: the empty graph and the entries on the stack
NewInnerStart(es) ==
    [stack |-> [i \in 1..Len(es) |-> <<None, es[i]>>],
     nodes |-> <<>>, modules |-> <<>>, edges |-> <<>>]

\* lines 103-123: the root and the entries map, after the loop
NewInnerFinish(r, es, st) ==
    LET root_idx == Len(st.nodes) + 1
        withRoot == AddsRoot(r, st.modules)
    IN  [nodes |-> IF withRoot THEN Append(st.nodes, r) ELSE st.nodes,
         edges |-> IF withRoot
                   THEN st.edges \o [i \in 1..Len(es) |-> <<root_idx, st.modules[es[i]]>>]
                   ELSE st.edges,
         entries |-> [m \in Range(es) \cup (IF withRoot THEN {r} ELSE {}) |->
                        IF m \in Range(es) THEN st.modules[m] ELSE root_idx]]

\* lines 68-124
NewInner(r, es, visited) ==
    NewInnerFinish(r, es, NewInnerLoop(NewInnerStart(es), visited))

\* lines 194-197
new_with_entries(es) ==
    /\ op' = "new_with_entries"
    /\ root' = None
    /\ entries' = es
    /\ visited_modules' = {}
    /\ graph' = NewInner(None, es, {})
    /\ UNCHANGED <<env, graphs, construction, is_single_page, query>>

\* lines 200-208
new_with_entries_visited(r, es, visited) ==
    /\ op' = "new_with_entries_visited"
    /\ root' = r
    /\ entries' = es
    /\ visited_modules' = visited
    /\ graph' = NewInner(r, es, visited)
    /\ UNCHANGED <<env, graphs, construction, is_single_page, query>>

(***************************************************************************)
(* petgraph: DiGraph::neighbors walks the outgoing edges of a node from    *)
(* the edge added last to the edge added first.                            *)
(***************************************************************************)
Neighbors_Incoming(g, node) ==
    LET into == SelectSeq(g.edges, LAMBDA e : e[2] = node)
    IN  [i \in 1..Len(into) |-> into[Len(into) + 1 - i][1]]

Neighbors(g, node) ==
    LET out == SelectSeq(g.edges, LAMBDA e : e[1] = node)
    IN  [i \in 1..Len(out) |-> out[Len(out) + 1 - i][2]]

\* lines 126-131: the node of an entry, None when the lookup fails
get_entry_Lenient(g, module) ==
    IF module \in DOMAIN g.entries THEN g.entries[module]
    ELSE IF g.nodes # <<>> THEN 1 ELSE None

get_entry(g, module) ==
    IF module \in DOMAIN g.entries THEN g.entries[module] ELSE None

(***************************************************************************)
(* SingleModuleGraph::traverse_from_entry: petgraph's Dfs pops a node,     *)
(* skips it when it is discovered, and otherwise marks it, pushes its      *)
(* undiscovered neighbours and yields it.                                  *)
(***************************************************************************)
\* lines 149-153: the modules handed to the visitor, in order
RECURSIVE Dfs(_, _, _, _)
Dfs(g, stack, discovered, visited) ==
    IF stack = <<>> THEN visited
    ELSE LET nx == Last(stack)
         IN  IF nx \in discovered THEN Dfs(g, Front(stack), discovered, visited)
             ELSE Dfs(g,
                      Front(stack) \o SelectSeq(Neighbors(g, nx),
                                                LAMBDA succ : succ \notin discovered \cup {nx}),
                      discovered \cup {nx},
                      Append(visited, g.nodes[nx]))

\* lines 142-155
TraverseFromEntry(g, e) ==
    LET entry_node == get_entry(g, e)
    IN  IF entry_node = None THEN [ok |-> FALSE, visited |-> <<>>]
        ELSE [ok |-> TRUE, visited |-> Dfs(g, <<entry_node>>, {}, <<>>)]

traverse_from_entry(e) ==
    /\ op' = "traverse_from_entry"
    /\ entry' = e
    /\ result' = TraverseFromEntry(graph, e)
    /\ UNCHANGED <<env, built, walk, calls, stack_log>>

(***************************************************************************)
(* SingleModuleGraph::traverse_edges_from_entry, one visitor invocation    *)
(* at a time.  walk.node is the node popped last and walk.succs are its    *)
(* neighbours the for loop has not reached yet.                            *)
(***************************************************************************)
Actions == {"Continue", "Skip"}

\* line 173: the invocation for the entry; what the visitor returns is dropped
RootCall_Missing(e, action) == <<>>

RootCall(e, action) ==
    <<[parent |-> None, module |-> e, action |-> action, fresh |-> TRUE]>>

\* lines 171-172
WalkStart(entry_node) ==
    [stack |-> <<entry_node>>, discovered |-> {}, node |-> None, succs |-> <<>>]

\* lines 175-177: pop a node and, the first time, start on its neighbours
WalkPop_Always(g, w) ==
    [stack |-> Front(w.stack), discovered |-> w.discovered \cup {Last(w.stack)},
     node |-> Last(w.stack), succs |-> Neighbors(g, Last(w.stack))]

WalkPop(g, w) ==
    LET node == Last(w.stack)
    IN  IF node \notin w.discovered
        THEN [stack |-> Front(w.stack), discovered |-> w.discovered \cup {node},
              node |-> node, succs |-> Neighbors(g, node)]
        ELSE [w EXCEPT !.stack = Front(w.stack), !.node = node]

\* line 181
ShouldPush_Always(discovered, succ, action) == succ \notin discovered

ShouldPush(discovered, succ, action) ==
    succ \notin discovered /\ action = "Continue"

\* lines 178-184: the visitor answered `action` for the next neighbour
WalkEdge(w, action) ==
    LET succ == Head(w.succs)
    IN  [w EXCEPT !.succs = Tail(w.succs),
                  !.stack = IF ShouldPush(w.discovered, succ, action)
                            THEN Append(w.stack, succ) ELSE w.stack]

\* what stack_log records: stack.push(node), and stack.pop() with whether
\* discovered.insert(node) was true, so that the neighbours are walked
Pushed(node) == [event |-> "push", node |-> node, expands |-> FALSE]

Popped(node, expands) == [event |-> "pop", node |-> node, expands |-> expands]

\* lines 168-173
traverse_edges_from_entry(e) ==
    /\ entry' = e
    /\ IF get_entry(graph, e) = None
       THEN /\ op' = "traverse_edges_done"
            /\ result' = [ok |-> FALSE]
            /\ calls' = <<>>
            /\ walk' = NoWalk
            /\ stack_log' = <<>>
       ELSE /\ op' = "traverse_edges"
            /\ result' = "none"
            /\ walk' = WalkStart(get_entry(graph, e))
            /\ stack_log' = <<Pushed(get_entry(graph, e))>>
            /\ \E action \in Actions : calls' = RootCall(e, action)
    /\ UNCHANGED <<env, built>>

\* lines 175-177
traverse_edges_pop ==
    /\ op = "traverse_edges"
    /\ walk.succs = <<>>
    /\ walk.stack # <<>>
    /\ walk' = WalkPop(graph, walk)
    /\ stack_log' = Append(stack_log, Popped(Last(walk.stack),
                                             Last(walk.stack) \notin walk.discovered))
    /\ UNCHANGED <<env, built, op, entry, calls, result>>

\* lines 178-184 with any visitor
traverse_edges_visit ==
    /\ op = "traverse_edges"
    /\ walk.succs # <<>>
    /\ \E action \in Actions :
          /\ calls' = Append(calls, [parent |-> graph.nodes[walk.node],
                                     module |-> graph.nodes[Head(walk.succs)],
                                     action |-> action,
                                     fresh |-> Head(walk.succs) \notin walk.discovered])
          /\ walk' = WalkEdge(walk, action)
          /\ stack_log' = IF ShouldPush(walk.discovered, Head(walk.succs), action)
                          THEN Append(stack_log, Pushed(Head(walk.succs)))
                          ELSE stack_log
    /\ UNCHANGED <<env, built, op, entry, result>>

\* line 188
traverse_edges_return ==
    /\ op = "traverse_edges"
    /\ walk.succs = <<>>
    /\ walk.stack = <<>>
    /\ op' = "traverse_edges_done"
    /\ result' = [ok |-> TRUE]
    /\ UNCHANGED <<env, built, entry, walk, calls, stack_log>>

(***************************************************************************)
(* The annotation maps of the views.  map_next_dynamic and                 *)
(* map_server_actions annotate nodes of the graph; annot[m] = 0 says that  *)
(* m has neither next/dynamic imports nor server actions.                  *)
(***************************************************************************)
\* client_references.rs lines 28-63: the kind of every node that has one
MapClientReferences(g) ==
    [m \in {n \in Range(g.nodes) : kind[n] # "None"} |-> kind[m]]

\* the DynamicImports of a graph, an FxIndexMap in the order of the nodes
MapNextDynamic(g) ==
    LET annotated == SelectSeq(g.nodes, LAMBDA m : annot[m] # 0)
    IN  [i \in 1..Len(annotated) |-> <<annotated[i], <<"import", annot[annotated[i]]>>>>]

\* the AllModuleActions of a graph: module -> (layer, hash, name)
MapServerActions(g) ==
    [m \in {n \in Range(g.nodes) : annot[n] # 0} |->
        [layer |-> IF annot[m] % 2 = 1 THEN "Rsc" ELSE "ActionBrowser",
         hash |-> (annot[m] + 1) \div 2,
         name |-> <<"action", annot[m]>>]]

\* to_rsc_context: the counterpart of a browser module in the RSC layer
ToRscContext(module) == <<"rsc", module>>

\* the ssr_module of an EcmascriptClientReference
SsrModule(module) == <<"ssr", module>>

(***************************************************************************)
(* NextDynamicGraph::get_next_dynamic_imports_for_endpoint                 *)
(***************************************************************************)
\* lines 336-342: the entries of data whose module the traversal visits
RECURSIVE CollectVisited(_, _)
CollectVisited(data, visited) ==
    IF visited = <<>> THEN <<>>
    ELSE SelectSeq(data, LAMBDA kv : kv[1] = Head(visited))
             \o CollectVisited(data, Tail(visited))

\* lines 333-342
FilterDynamicImports_EmptyOnFailure(g, data, e) ==
    LET t == TraverseFromEntry(g, e)
    IN  [ok |-> TRUE, value |-> CollectVisited(data, t.visited)]

FilterDynamicImports_Unfiltered(g, data, e) ==
    LET t == TraverseFromEntry(g, e)
    IN  IF ~t.ok THEN [ok |-> FALSE] ELSE [ok |-> TRUE, value |-> data]

FilterDynamicImports(g, data, e) ==
    LET t == TraverseFromEntry(g, e)
    IN  IF ~t.ok THEN [ok |-> FALSE]
        ELSE [ok |-> TRUE, value |-> CollectVisited(data, t.visited)]

\* lines 328-331: the graph of a single page needs no filtering
SinglePageImports_Filtered(g, data, e) == FilterDynamicImports(g, data, e)

SinglePageImports(g, data, e) == [ok |-> TRUE, value |-> data]

\* lines 327-345: the query of one NextDynamicGraph
NextDynamicImportsForEndpoint(g, single, e) ==
    IF single THEN SinglePageImports(g, MapNextDynamic(g), e)
    ELSE FilterDynamicImports(g, MapNextDynamic(g), e)

\* lines 322-347
get_next_dynamic_imports_for_endpoint(e) ==
    /\ op' = "get_next_dynamic_imports_for_endpoint"
    /\ entry' = e
    /\ result' = NextDynamicImportsForEndpoint(graph, is_single_page, e)
    /\ UNCHANGED <<env, built, walk, calls, stack_log>>

(***************************************************************************)
(* ServerActionsGraph::get_server_actions_for_endpoint                     *)
(***************************************************************************)
\* lines 393-399
FilterServerActions(g, data, e) ==
    LET t == TraverseFromEntry(g, e)
    IN  IF ~t.ok THEN [ok |-> FALSE]
        ELSE [ok |-> TRUE,
              data |-> [m \in DOMAIN data \cap Range(t.visited) |-> data[m]]]

\* lines 409-420: the action record of a module
ActionOf(data, module) ==
    [layer |-> data[module].layer,
     name |-> data[module].name,
     module |-> IF data[module].layer = "Rsc" THEN module ELSE ToRscContext(module)]

\* lines 402-427: the actions collected by hash; `order` is the order in which
\* the HashMap data is iterated, and a later action replaces one of the same hash
RECURSIVE CollectActions(_, _)
CollectActions(data, order) ==
    IF order = <<>> THEN <<>>
    ELSE (data[Last(order)].hash :> ActionOf(data, Last(order)))
             @@ CollectActions(data, Front(order))

Orders(S) == {o \in [1..Cardinality(S) -> S] : Range(o) = S}

\* lines 378-431
get_server_actions_for_endpoint(e) ==
    /\ op' = "get_server_actions_for_endpoint"
    /\ entry' = e
    /\ LET all == MapServerActions(graph)
           filtered == IF is_single_page THEN [ok |-> TRUE, data |-> all]
                       ELSE FilterServerActions(graph, all, e)
       IN  IF ~filtered.ok THEN result' = [ok |-> FALSE]
           ELSE \E order \in Orders(DOMAIN filtered.data) :
                   result' = [ok |-> TRUE, data |-> filtered.data,
                              actions |-> CollectActions(filtered.data, order)]
    /\ UNCHANGED <<env, built, walk, calls, stack_log>>

(***************************************************************************)
(* ClientReferencesGraph::get_client_references_for_endpoint               *)
(***************************************************************************)
\* lines 476-477: the bucket of None exists before the walk
InitialBuckets_Empty == <<>>

InitialBuckets == <<<<None, <<>>>>>>

\* lines 509-512: FxIndexMap entry(key).or_insert_with(Vec::new).push(value)
PushToBucket(buckets, key, value) ==
    IF \E i \in DOMAIN buckets : buckets[i][1] = key
    THEN [i \in DOMAIN buckets |->
            IF buckets[i][1] = key THEN <<key, Append(buckets[i][2], value)>>
            ELSE buckets[i]]
    ELSE Append(buckets, <<key, <<value>>>>)

\* lines 486-492: the server component the module belongs to
ParentServerComponent_OfParentOnly(module_type, state_map, parent_module, module) ==
    IF parent_module \in DOMAIN state_map THEN state_map[parent_module] ELSE None

ParentServerComponent(module_type, state_map, parent_module, module) ==
    IF module_type = "ServerComponent" THEN module
    ELSE IF parent_module \in DOMAIN state_map THEN state_map[parent_module]
    ELSE None

\* lines 496-526: what the closure returns for a module of the type
ClientReferenceAction_Continue(module_type) == "Continue"

ClientReferenceAction(module_type) ==
    IF module_type \in {"EcmascriptClientReference", "CssClientReference"}
    THEN "Skip" ELSE "Continue"

\* lines 481-527: the visitor closure; acc holds what it captured
ClientReferenceVisitor(data, acc, parent_module, module) ==
    IF parent_module = None THEN [action |-> "Continue", acc |-> acc]
    ELSE
    LET module_type == IF module \in DOMAIN data THEN data[module] ELSE "None"
        parent_server_component ==
            ParentServerComponent(module_type, acc.state_map, parent_module, module)
        state_map == (module :> parent_server_component) @@ acc.state_map
    IN  CASE module_type = "EcmascriptClientReference" ->
               [action |-> ClientReferenceAction(module_type),
                acc |-> [state_map |-> state_map,
                         client_references |->
                            Append(acc.client_references,
                                   [server_component |-> parent_server_component,
                                    ty |-> "EcmascriptClientReference",
                                    parent_module |-> parent_module,
                                    module |-> module]),
                         client_references_by_server_component |->
                            PushToBucket(acc.client_references_by_server_component,
                                         parent_server_component, SsrModule(module))]]
          [] module_type = "CssClientReference" ->
               [action |-> ClientReferenceAction(module_type),
                acc |-> [acc EXCEPT
                           !.state_map = state_map,
                           !.client_references =
                               Append(@, [server_component |-> parent_server_component,
                                          ty |-> "CssClientReference",
                                          parent_module |-> None,
                                          module |-> module])]]
          [] OTHER -> [action |-> ClientReferenceAction(module_type),
                       acc |-> [acc EXCEPT !.state_map = state_map]]

\* lines 175-186 driven by the closure: the loop of traverse_edges_from_entry
RECURSIVE ClientReferencesWalk(_, _, _, _, _)
ClientReferencesWalk(g, data, w, acc, log) ==
    IF w.succs # <<>>
    THEN LET parent_module == g.nodes[w.node]
             module == g.nodes[Head(w.succs)]
             r == ClientReferenceVisitor(data, acc, parent_module, module)
         IN  ClientReferencesWalk(g, data, WalkEdge(w, r.action), r.acc,
                Append(log, [parent |-> parent_module, module |-> module,
                             action |-> r.action,
                             fresh |-> Head(w.succs) \notin w.discovered]))
    ELSE IF w.stack # <<>> THEN ClientReferencesWalk(g, data, WalkPop(g, w), acc, log)
    ELSE [acc |-> acc, calls |-> log]

\* lines 470-527
ClientReferencesForEndpoint(g, data, e) ==
    LET acc == [state_map |-> <<>>, client_references |-> <<>>,
                client_references_by_server_component |-> InitialBuckets]
        r == ClientReferenceVisitor(data, acc, None, e)
    IN  IF get_entry(g, e) = None THEN [result |-> [ok |-> FALSE], calls |-> <<>>]
        ELSE LET done == ClientReferencesWalk(g, data, WalkStart(get_entry(g, e)),
                                              r.acc, RootCall(e, r.action))
             IN  [result |->
                    [ok |-> TRUE,
                     client_references |-> done.acc.client_references,
                     client_references_by_server_component |->
                         done.acc.client_references_by_server_component],
                  calls |-> done.calls]

\* lines 464-547; server_utils and server_component_entries of the result are
\* find_server_entries' answer, which the walk does not touch
get_client_references_for_endpoint(e) ==
    /\ op' = "get_client_references_for_endpoint"
    /\ entry' = e
    /\ LET r == ClientReferencesForEndpoint(graph, MapClientReferences(graph), e)
       IN  /\ result' = r.result
           /\ calls' = r.calls
    /\ UNCHANGED <<env, built, walk, stack_log>>

(***************************************************************************)
(* get_reduced_graphs_for_endpoint: the views are over the whole           *)
(* application (NextMode::Build) or over one graph of an endpoint          *)
(* (NextMode::Development).                                                *)
(***************************************************************************)
\* lines 683-694
views_for_app(es) ==
    /\ op' = "new_with_entries"
    /\ root' = None
    /\ entries' = es
    /\ visited_modules' = {}
    /\ graph' = NewInner(None, es, {})
    /\ graphs' = <<graph'>>
    /\ is_single_page' = FALSE
    /\ UNCHANGED <<env, construction, query>>

\* lines 676-682
views_for_endpoint(r, es, visited) ==
    /\ op' = "new_with_entries_visited"
    /\ root' = r
    /\ entries' = es
    /\ visited_modules' = visited
    /\ graph' = NewInner(r, es, visited)
    /\ is_single_page' = TRUE
    /\ UNCHANGED <<env, graphs, construction, query>>

(***************************************************************************)
(* get_module_graph_for_endpoint: the chain of graphs of an endpoint.      *)
(***************************************************************************)
\* lines 229 and 242: the nodes of a graph join visited_modules
ExtendVisited_Kept(visited, g) == visited

ExtendVisited_Replaced(visited, g) == Range(g.nodes)

ExtendVisited(visited, g) == visited \cup Range(g.nodes)

\* lines 231-244: one graph for each server component entry, in order
RECURSIVE ServerComponentGraphs(_, _, _)
ServerComponentGraphs(e, modules, visited) ==
    IF modules = <<>> THEN [graphs |-> <<>>, visited_modules |-> visited]
    ELSE LET g == NewInner(e, <<Head(modules)>>, visited)
             rest == ServerComponentGraphs(e, Tail(modules), ExtendVisited(visited, g))
         IN  [graphs |-> <<g>> \o rest.graphs, visited_modules |-> rest.visited_modules]

\* lines 213-255
GetModuleGraphForEndpoint_WithoutEndpoint(e, utils, components) ==
    LET g == NewInner(e, utils, {})
        segments == ServerComponentGraphs(e, components, ExtendVisited({}, g))
    IN  [graphs |-> <<g>> \o segments.graphs,
         visited_modules |-> segments.visited_modules]

GetModuleGraphForEndpoint(e, utils, components) ==
    LET g == NewInner(e, utils, {})
        segments == ServerComponentGraphs(e, components, ExtendVisited({}, g))
    IN  [graphs |-> <<g>> \o segments.graphs
                       \o <<NewInner(e, <<e>>, segments.visited_modules)>>,
         visited_modules |-> segments.visited_modules]

\* lines 669-682 and 696-739: NextMode::Development, views over the chain
get_reduced_graphs_for_endpoint(e) ==
    /\ op' = "get_reduced_graphs_for_endpoint"
    /\ LET chain == GetModuleGraphForEndpoint(e, server_utils, server_component_entries)
       IN  /\ graphs' = chain.graphs
           /\ graph' = Last(chain.graphs)
           /\ visited_modules' = chain.visited_modules
    /\ root' = e
    /\ entries' = <<e>>
    /\ is_single_page' = TRUE
    /\ UNCHANGED <<env, construction, query>>

(***************************************************************************)
(* ReducedGraphs: the queries over all its views.                          *)
(***************************************************************************)
\* FxIndexMap insert: a key keeps its place and takes the value given last
IndexMapInsert(map, kv) ==
    IF \E i \in DOMAIN map : map[i][1] = kv[1]
    THEN [i \in DOMAIN map |-> IF map[i][1] = kv[1] THEN kv ELSE map[i]]
    ELSE Append(map, kv)

\* line 590: collect() of the pairs into the FxIndexMap
RECURSIVE CollectIndexMap(_)
CollectIndexMap(pairs) ==
    IF pairs = <<>> THEN <<>>
    ELSE IndexMapInsert(CollectIndexMap(Front(pairs)), Last(pairs))

\* try_flat_join: the values of the results one after the other
RECURSIVE FlatJoin(_)
FlatJoin(results) ==
    IF results = <<>> THEN <<>> ELSE Head(results).value \o FlatJoin(Tail(results))

\* lines 566-597
ReducedNextDynamicImports_Lenient(gs, single, e) ==
    LET results == [i \in DOMAIN gs |-> NextDynamicImportsForEndpoint(gs[i], single, e)]
        succeeded == SelectSeq(results, LAMBDA r : r.ok)
    IN  [ok |-> TRUE, value |-> CollectIndexMap(FlatJoin(succeeded))]

ReducedNextDynamicImports(gs, single, e) ==
    IF Len(gs) = 1 THEN NextDynamicImportsForEndpoint(gs[1], single, e)
    ELSE LET results == [i \in DOMAIN gs |->
                            NextDynamicImportsForEndpoint(gs[i], single, e)]
         IN  IF \E i \in DOMAIN results : ~results[i].ok THEN [ok |-> FALSE]
             ELSE [ok |-> TRUE, value |-> CollectIndexMap(FlatJoin(results))]

reduced_get_next_dynamic_imports_for_endpoint(e) ==
    /\ op' = "ReducedGraphs::get_next_dynamic_imports_for_endpoint"
    /\ entry' = e
    /\ result' = ReducedNextDynamicImports(graphs, is_single_page, e)
    /\ UNCHANGED <<env, built, walk, calls, stack_log>>

\* lines 378-431: what one ServerActionsGraph may answer, one result for
\* each order in which its HashMap is iterated
ServerActionsForEndpoint(g, single, e) ==
    LET all == MapServerActions(g)
        filtered == IF single THEN [ok |-> TRUE, data |-> all]
                    ELSE FilterServerActions(g, all, e)
    IN  IF ~filtered.ok THEN {[ok |-> FALSE]}
        ELSE {[ok |-> TRUE, data |-> filtered.data,
               actions |-> CollectActions(filtered.data, order)] :
                 order \in Orders(DOMAIN filtered.data)}

\* line 623: collect() takes the actions of the next result, one of the same
\* hash replacing the action collected before
MergeActions_LastOnly(merged, actions) == actions

MergeActions(merged, actions) == actions @@ merged

\* lines 611-623: what collect() may give for the answers of the views, taken
\* in the order of the views
RECURSIVE MergedActions(_)
MergedActions(answers) ==
    IF answers = <<>> THEN {<<>>}
    ELSE {MergeActions(merged, r.actions) :
            r \in Last(answers), merged \in MergedActions(Front(answers))}

\* lines 600-629
ReducedServerActions(gs, single, e) ==
    IF Len(gs) = 1 THEN ServerActionsForEndpoint(gs[1], single, e)
    ELSE LET answers == [i \in DOMAIN gs |-> ServerActionsForEndpoint(gs[i], single, e)]
         IN  IF \E i \in DOMAIN gs : [ok |-> FALSE] \in answers[i]
             THEN {[ok |-> FALSE]}
             ELSE {[ok |-> TRUE, actions |-> merged] : merged \in MergedActions(answers)}

reduced_get_server_actions_for_endpoint(e) ==
    /\ op' = "ReducedGraphs::get_server_actions_for_endpoint"
    /\ entry' = e
    /\ result' \in ReducedServerActions(graphs, is_single_page, e)
    /\ UNCHANGED <<env, built, walk, calls, stack_log>>

\* ClientReferenceGraphResult::extend: the records and the buckets of the
\* other result are appended, bucket by bucket
RECURSIVE ExtendBuckets(_, _)
ExtendBuckets(buckets, other) ==
    IF other = <<>> THEN buckets
    ELSE LET key == Head(other)[1]
             values == Head(other)[2]
             extended ==
                 IF \E i \in DOMAIN buckets : buckets[i][1] = key
                 THEN [i \in DOMAIN buckets |->
                         IF buckets[i][1] = key
                         THEN <<key, buckets[i][2] \o values>> ELSE buckets[i]]
                 ELSE Append(buckets, <<key, values>>)
         IN  ExtendBuckets(extended, Tail(other))

Extend(result_, other) ==
    [ok |-> TRUE,
     client_references |-> result_.client_references \o other.client_references,
     client_references_by_server_component |->
         ExtendBuckets(result_.client_references_by_server_component,
                       other.client_references_by_server_component)]

\* lines 652-656
RECURSIVE ExtendAll(_, _)
ExtendAll(result_, others) ==
    IF others = <<>> THEN result_
    ELSE ExtendAll(Extend(result_, Head(others)), Tail(others))

\* the visitor invocations of all views
RECURSIVE ConcatCalls(_)
ConcatCalls(answers) ==
    IF answers = <<>> THEN <<>> ELSE Head(answers).calls \o ConcatCalls(Tail(answers))

\* lines 632-662
ReducedClientReferences(gs, e) ==
    LET answers == [i \in DOMAIN gs |->
                       ClientReferencesForEndpoint(gs[i], MapClientReferences(gs[i]), e)]
    IN  IF Len(gs) = 1 THEN answers[1]
        ELSE [result |-> IF \E i \in DOMAIN gs : ~answers[i].result.ok
                         THEN [ok |-> FALSE]
                         ELSE ExtendAll(answers[1].result,
                                        [i \in 1..(Len(gs) - 1) |-> answers[i + 1].result]),
              calls |-> ConcatCalls(answers)]

reduced_get_client_references_for_endpoint(e) ==
    /\ op' = "ReducedGraphs::get_client_references_for_endpoint"
    /\ entry' = e
    /\ LET r == ReducedClientReferences(graphs, e)
       IN  /\ result' = r.result
           /\ calls' = r.calls
    /\ UNCHANGED <<env, built, walk, stack_log>>

(***************************************************************************)
(* Construction of graphs over any reference relation.                     *)
(***************************************************************************)
InitState ==
    /\ op = "init"
    /\ root = None
    /\ entries = <<>>
    /\ visited_modules = {}
    /\ graph = DefaultGraph
    /\ graphs = <<>>
    /\ construction = NoConstruction
    /\ is_single_page = FALSE
    /\ entry = None
    /\ walk = NoWalk
    /\ calls = <<>>
    /\ stack_log = <<>>
    /\ result = "none"

Init ==
    /\ refs \in RefRelations
    /\ isMap \in {{}, {NumModules}, {NumModules - 1}}
    /\ kind = [m \in Modules |-> "None"]
    /\ annot = [m \in Modules |-> 0]
    /\ server_utils = <<>>
    /\ server_component_entries = <<>>
    /\ InitState

NewWithEntries ==
    /\ op = "init"
    /\ \E es \in EntryLists : new_with_entries(es)

\* the module names are interchangeable, so the root is the last module
NewWithEntriesVisited ==
    /\ op = "init"
    /\ \E es \in EntryLists, visited \in SUBSET Modules :
          new_with_entries_visited(NumModules, es, visited)

Next == NewWithEntries \/ NewWithEntriesVisited

Spec == Init /\ [][Next]_vars

(***************************************************************************)
(* Traversals of a constructed graph.                                      *)
(***************************************************************************)
IsBuilt == op \in {"new_with_entries", "new_with_entries_visited"}

InitTraversal ==
    /\ refs \in RefRelations
    /\ isMap = {}
    /\ kind = [m \in Modules |-> "None"]
    /\ annot = [m \in Modules |-> 0]
    /\ server_utils = <<>>
    /\ server_component_entries = <<>>
    /\ InitState

\* a graph with a root, built after at most one module was placed elsewhere
NewWithRoot ==
    /\ op = "init"
    /\ \E es \in EntryLists, visited \in {{}} \cup {{m} : m \in Modules} :
          new_with_entries_visited(NumModules, es, visited)

TraverseFromEntryCall ==
    /\ IsBuilt
    /\ \E e \in Modules : traverse_from_entry(e)

NextTraverse == NewWithEntries \/ NewWithRoot \/ TraverseFromEntryCall

SpecTraverse == InitTraversal /\ [][NextTraverse]_vars

\* the module names are interchangeable, so the graph is built from module 1
NewWithOneEntry ==
    /\ op = "init"
    /\ new_with_entries(<<1>>)

NewWithOneEntryAndRoot ==
    /\ op = "init"
    /\ \E visited \in {{}} \cup {{m} : m \in Modules} :
          new_with_entries_visited(NumModules, <<1>>, visited)

TraverseEdgesCall ==
    /\ IsBuilt
    /\ \E e \in {1, NumModules} : traverse_edges_from_entry(e)

NextWalk ==
    \/ NewWithOneEntry
    \/ NewWithOneEntryAndRoot
    \/ TraverseEdgesCall
    \/ traverse_edges_pop
    \/ traverse_edges_visit
    \/ traverse_edges_return

SpecWalk == InitTraversal /\ [][NextWalk]_vars

(***************************************************************************)
(* Queries of the views.                                                   *)
(***************************************************************************)
InitClientReferences ==
    /\ refs \in RefRelations
    /\ isMap = {}
    /\ kind \in [Modules -> Kinds]
    /\ annot = [m \in Modules |-> 0]
    /\ server_utils = <<>>
    /\ server_component_entries = <<>>
    /\ InitState

\* the module names are interchangeable, so the endpoint is module 1
ViewsForOneEntry ==
    /\ op = "init"
    /\ views_for_app(<<1>>)

ClientReferencesQuery ==
    /\ IsBuilt
    /\ get_client_references_for_endpoint(1)

NextClientReferences == ViewsForOneEntry \/ ClientReferencesQuery

SpecClientReferences == InitClientReferences /\ [][NextClientReferences]_vars

InitViews ==
    /\ refs \in RefRelations
    /\ isMap = {}
    /\ kind = [m \in Modules |-> "None"]
    /\ annot \in [Modules -> 0..NumAnnot]
    /\ server_utils = <<>>
    /\ server_component_entries = <<>>
    /\ InitState

ViewsForApp ==
    /\ op = "init"
    /\ \E es \in {<<1>>, <<1, 2>>} : views_for_app(es)

ViewsForEndpoint ==
    /\ op = "init"
    /\ \E es \in {<<>>, <<1>>} : views_for_endpoint(NumModules, es, {})

NextDynamicQuery ==
    /\ IsBuilt
    /\ \E e \in Modules : get_next_dynamic_imports_for_endpoint(e)

ServerActionsQuery ==
    /\ IsBuilt
    /\ \E e \in Modules : get_server_actions_for_endpoint(e)

ClientReferencesQueryAny ==
    /\ IsBuilt
    /\ \E e \in Modules : get_client_references_for_endpoint(e)

NextViews ==
    \/ ViewsForApp
    \/ ViewsForEndpoint
    \/ NextDynamicQuery
    \/ ServerActionsQuery
    \/ ClientReferencesQueryAny

SpecViews == InitViews /\ [][NextViews]_vars

(***************************************************************************)
(* Properties of the constructed graph.                                    *)
(***************************************************************************)
NodeSet(g) == Range(g.nodes)

\* the targets of the primary references of m that are no sourcemaps
ReferenceTargets(m) == {t \in Range(refs[m]) : t \notin isMap}

RECURSIVE ReferenceClosure(_)
ReferenceClosure(S) ==
    LET T == S \cup UNION {ReferenceTargets(m) : m \in S}
    IN  IF T = S THEN S ELSE ReferenceClosure(T)

\* the modules reachable from the entries
ReachableModules(es) == ReferenceClosure(Range(es))

\* C1: a graph built with no root and an empty visited set holds exactly the
\* modules reachable from the entries over references to non-sourcemaps, and
\* no module is the weight of two nodes.
C1_NodesAreReachableSet ==
    op = "new_with_entries" =>
        /\ NodeSet(graph) = ReachableModules(entries)
        /\ Cardinality(NodeSet(graph)) = Len(graph.nodes)

\* a graph with a cycle or a shared descendant, built while one of its modules
\* references a sourcemap
C1_Witness ==
    /\ op = "new_with_entries"
    /\ Len(graph.nodes) >= 2
    /\ Len(graph.edges) >= Len(graph.nodes)
    /\ \E m \in NodeSet(graph) : Range(refs[m]) \cap isMap # {}

\* C2 as stated: with a non-empty visited set, no visited module other than
\* an entry is a node of the graph.
C2_NoVisitedNode ==
    (op = "new_with_entries_visited" /\ visited_modules # {}) =>
        \A m \in visited_modules \ Range(entries) : m \notin NodeSet(graph)

\* C2 amended: with a non-empty visited set, no visited module other than an
\* entry or the root is a node of the graph.
C2_NoVisitedNodeButRoot ==
    (op = "new_with_entries_visited" /\ visited_modules # {}) =>
        \A m \in visited_modules \ (Range(entries) \cup {root}) :
            m \notin NodeSet(graph)

\* a visited module that an entry reaches and that is neither entry nor root
C2_Witness ==
    /\ op = "new_with_entries_visited"
    /\ \E m \in visited_modules \ (Range(entries) \cup {root}) :
          /\ m \in ReachableModules(entries)
          /\ m \notin NodeSet(graph)

(***************************************************************************)
(* Properties of the traversals.                                           *)
(***************************************************************************)
\* the nodes a node reaches over the edges of the graph, itself included
RECURSIVE NodeClosure(_, _)
NodeClosure(g, S) ==
    LET T == S \cup {e[2] : e \in {d \in Range(g.edges) : d[1] \in S}}
    IN  IF T = S THEN S ELSE NodeClosure(g, T)

ReachableNodes(g, node) == NodeClosure(g, {node})

Occurrences(s, x) == Cardinality({i \in DOMAIN s : s[i] = x})

\* C3: traverse_from_entry from an entry of the graph hands the visitor every
\* node reachable from the entry's node exactly once and no other node.
C3_VisitsReachableOnce ==
    (op = "traverse_from_entry" /\ entry \in DOMAIN graph.entries) =>
        /\ result.ok
        /\ \A n \in DOMAIN graph.nodes :
              Occurrences(result.visited, graph.nodes[n]) =
                  IF n \in ReachableNodes(graph, graph.entries[entry]) THEN 1 ELSE 0

\* a traversal of a graph with an edge back to the entry and a node that the
\* entry does not reach
C3_Witness ==
    /\ op = "traverse_from_entry"
    /\ entry \in DOMAIN graph.entries
    /\ Len(result.visited) >= 2
    /\ Len(graph.nodes) > Len(result.visited)
    /\ \E e \in Range(graph.edges) : e[2] = graph.entries[entry]

WalkRuns == op \in {"traverse_edges", "traverse_edges_done"} /\ entry \in DOMAIN graph.entries

\* C4: in a walk from an entry of the graph the first visitor invocation is
\* (None, entry) and no later invocation has the parent None.
C4_RootCallFirstAndOnce ==
    WalkRuns =>
        /\ Len(calls) >= 1
        /\ calls[1].parent = None
        /\ calls[1].module = entry
        /\ \A i \in 2..Len(calls) : calls[i].parent # None

\* a finished walk that was notified of an edge leading back to the entry
C4_Witness ==
    /\ op = "traverse_edges_done"
    /\ result.ok
    /\ \E i \in 2..Len(calls) : calls[i].module = entry

OutDegree(g, node) == Cardinality({i \in DOMAIN g.edges : g.edges[i][1] = node})

\* C5: the visitor is invoked with a module B other than the entry as parent
\* only after it answered Continue for an edge into B while B was undiscovered;
\* and every outgoing edge of a node the walk expanded is notified, whatever
\* the visitor answered for the edges before it.
C5_SkipPrunes ==
    WalkRuns =>
        /\ \A i \in DOMAIN calls :
              calls[i].parent \notin {None, entry} =>
                  \E j \in 1..(i - 1) :
                      /\ calls[j].module = calls[i].parent
                      /\ calls[j].action = "Continue"
                      /\ calls[j].fresh
        /\ op = "traverse_edges_done" =>
              \A n \in walk.discovered :
                  Occurrences([i \in DOMAIN calls |-> calls[i].parent], graph.nodes[n])
                      = OutDegree(graph, n)

\* a finished walk in which the visitor skipped the only edge into a module
\* that has references, and was never invoked with it as parent
C5_Witness ==
    /\ op = "traverse_edges_done"
    /\ result.ok
    /\ \E i \in 2..Len(calls) :
          /\ calls[i].action = "Skip"
          /\ calls[i].module # entry
          /\ \E n \in DOMAIN graph.nodes :
                /\ graph.nodes[n] = calls[i].module
                /\ OutDegree(graph, n) > 0
          /\ \A j \in DOMAIN calls : calls[j].parent # calls[i].module

(***************************************************************************)
(* Properties of the queries.                                              *)
(***************************************************************************)
IsQuery ==
    op \in {"get_next_dynamic_imports_for_endpoint", "get_server_actions_for_endpoint",
            "get_client_references_for_endpoint"}

\* C6 as stated: a query of any view for a module that is no key of the
\* entries map fails, whatever is_single_page is.
C6_MissingEntryFails ==
    (IsQuery /\ entry \notin DOMAIN graph.entries) => ~result.ok

\* C6 amended: such a query fails on the client-references view and on a
\* dynamic-import or server-actions view that is not single-page; a single-page
\* dynamic-import or server-actions view does not look the entry up and
\* returns its whole annotation map.
C6_MissingEntryFailsUnlessSinglePage ==
    (IsQuery /\ entry \notin DOMAIN graph.entries) =>
        IF op = "get_client_references_for_endpoint" \/ ~is_single_page
        THEN ~result.ok
        ELSE /\ result.ok
             /\ op = "get_next_dynamic_imports_for_endpoint" =>
                    result.value = MapNextDynamic(graph)
             /\ op = "get_server_actions_for_endpoint" =>
                    result.data = MapServerActions(graph)

\* a whole-app dynamic-import view asked for an annotated module of its graph
\* that is no entry
C6_Witness ==
    /\ op = "get_next_dynamic_imports_for_endpoint"
    /\ ~is_single_page
    /\ entry \notin DOMAIN graph.entries
    /\ entry \in NodeSet(graph)
    /\ annot[entry] # 0
    /\ ~result.ok

\* the paths from one node to another: every node between the two ends occurs
\* once and is neither end
RECURSIVE PathsFrom(_, _, _)
PathsFrom(g, p, target) ==
    UNION {IF e[2] = target THEN {Append(p, target)}
           ELSE IF e[2] \in Range(p) THEN {}
           ELSE PathsFrom(g, Append(p, e[2]), target)
           : e \in {d \in Range(g.edges) : d[1] = Last(p)}}

Paths(g, from, to) == PathsFrom(g, <<from>>, to)

Max(S) == CHOOSE x \in S : \A y \in S : y <= x

\* the last server component after the first node and before the last node
LastBoundary(g, p) ==
    LET at == {i \in 2..(Len(p) - 1) : kind[g.nodes[p[i]]] = "ServerComponent"}
    IN  IF at = {} THEN None ELSE g.nodes[p[Max(at)]]

IsClientReference(m) == kind[m] \in {"EcmascriptClientReference", "CssClientReference"}

\* the records emitted for the client reference at node c all name the last
\* server component on the one path from the entry to c
RecordsNameLastBoundary(c) ==
    LET P == Paths(graph, graph.entries[entry], c)
    IN  (IsClientReference(graph.nodes[c]) /\ Cardinality(P) = 1) =>
            \A i \in DOMAIN result.client_references :
                result.client_references[i].module = graph.nodes[c] =>
                    result.client_references[i].server_component
                        = LastBoundary(graph, CHOOSE p \in P : TRUE)

\* the entry is a server component with a reference to itself
EntryIsOwnBoundary ==
    /\ kind[entry] = "ServerComponent"
    /\ <<graph.entries[entry], graph.entries[entry]>> \in Range(graph.edges)

\* C7 as stated: when only one path leads from the entry to a client
\* reference, every record emitted for the client reference names the last
\* server component on that path after the entry, and None when the path has
\* none.
C7_NearestBoundary ==
    (op = "get_client_references_for_endpoint" /\ result.ok) =>
        \A c \in DOMAIN graph.nodes : RecordsNameLastBoundary(c)

\* C7 amended: the same, unless the entry is a server component that
\* references itself.
C7_NearestBoundaryUnlessEntryLoops ==
    (op = "get_client_references_for_endpoint" /\ result.ok /\ ~EntryIsOwnBoundary) =>
        \A c \in DOMAIN graph.nodes : RecordsNameLastBoundary(c)

\* a record for a client reference below two nested server components
C7_Witness ==
    /\ op = "get_client_references_for_endpoint"
    /\ result.ok
    /\ \E c \in DOMAIN graph.nodes :
          LET P == Paths(graph, graph.entries[entry], c)
          IN  /\ Cardinality(P) = 1
              /\ \E p \in P :
                    /\ Len(p) = 4
                    /\ kind[graph.nodes[p[2]]] = "ServerComponent"
                    /\ kind[graph.nodes[p[3]]] = "ServerComponent"
                    /\ \E i \in DOMAIN result.client_references :
                          /\ result.client_references[i].module = graph.nodes[c]
                          /\ result.client_references[i].server_component = graph.nodes[p[3]]

\* C8: in every successful result the first key of
\* client_references_by_server_component is None.
C8_NoneBucketFirst ==
    (op = "get_client_references_for_endpoint" /\ result.ok) =>
        /\ result.client_references_by_server_component # <<>>
        /\ result.client_references_by_server_component[1][1] = None

\* a result whose first client reference is an ecmascript one below a server
\* component
C8_Witness ==
    /\ op = "get_client_references_for_endpoint"
    /\ result.ok
    /\ result.client_references # <<>>
    /\ result.client_references[1].ty = "EcmascriptClientReference"
    /\ result.client_references[1].server_component # None
    /\ Len(result.client_references_by_server_component) = 2

\* the scenario of C9 with A, B, C, D = 1, 2, 3, 4
C9_Scenario ==
    /\ op = "get_client_references_for_endpoint"
    /\ entries = <<1>>
    /\ entry = 1
    /\ refs[1] = <<2, 3>>
    /\ refs[2] = <<>>
    /\ refs[3] = <<4>>
    /\ \A m \in Modules \ {1, 2, 3} : refs[m] = <<>>
    /\ kind[1] = "None"
    /\ kind[2] = "EcmascriptClientReference"
    /\ kind[3] = "None"
    /\ kind[4] = "ServerComponent"

C9_OneRecordForB ==
    /\ result.ok
    /\ NodeSet(graph) = {1, 2, 3, 4}
    /\ Len(result.client_references) = 1
    /\ result.client_references[1].module = 2
    /\ result.client_references[1].server_component = None

\* C9 as stated: the nodes are A, B, C, D, the one record is for B with no
\* server component, and the buckets have the key None first and the key D
\* with no SSR module.
C9_BucketOfD ==
    C9_Scenario =>
        /\ C9_OneRecordForB
        /\ result.client_references_by_server_component[1][1] = None
        /\ \E i \in DOMAIN result.client_references_by_server_component :
              result.client_references_by_server_component[i] = <<4, <<>>>>

\* C9 amended: the nodes are A, B, C, D, the one record is for B with no
\* server component, and the buckets have the single key None, which holds
\* the SSR module of B; D is no key.
C9_OnlyBucketOfNone ==
    C9_Scenario =>
        /\ C9_OneRecordForB
        /\ result.client_references_by_server_component = <<<<None, <<SsrModule(2)>>>>>>

C9_Witness == C9_Scenario /\ result.ok /\ Len(graph.nodes) = 4

ReachableModulesOfEntry ==
    {graph.nodes[n] : n \in ReachableNodes(graph, graph.entries[entry])}

\* C10: a dynamic-import or server-actions view that is not single-page
\* returns, for an entry of the graph, the entries of its annotation map whose
\* module the entry reaches, each with its annotation, and no other.
C10_FilteredByReachability ==
    (IsQuery /\ ~is_single_page /\ entry \in DOMAIN graph.entries) =>
        /\ op = "get_next_dynamic_imports_for_endpoint" =>
              /\ result.ok
              /\ Range(result.value) =
                    {kv \in Range(MapNextDynamic(graph)) : kv[1] \in ReachableModulesOfEntry}
              /\ Len(result.value) = Cardinality(Range(result.value))
        /\ op = "get_server_actions_for_endpoint" =>
              /\ result.ok
              /\ DOMAIN result.data = DOMAIN MapServerActions(graph) \cap ReachableModulesOfEntry
              /\ \A m \in DOMAIN result.data : result.data[m] = MapServerActions(graph)[m]
              /\ DOMAIN result.actions = {result.data[m].hash : m \in DOMAIN result.data}
              /\ \A h \in DOMAIN result.actions :
                    \E m \in DOMAIN result.data :
                        /\ result.data[m].hash = h
                        /\ result.actions[h] = ActionOf(MapServerActions(graph), m)

\* a whole-app dynamic-import view with an annotated module that the entry
\* reaches and an annotated module that it does not reach
C10_Witness ==
    /\ op = "get_next_dynamic_imports_for_endpoint"
    /\ ~is_single_page
    /\ entry \in DOMAIN graph.entries
    /\ \E m \in ReachableModulesOfEntry \ {entry} : annot[m] # 0
    /\ \E m \in NodeSet(graph) \ ReachableModulesOfEntry : annot[m] # 0
    /\ Len(result.value) >= 1

(***************************************************************************)
(* The views of a single page.                                             *)
(***************************************************************************)
\* C11: a dynamic-import view with isSinglePage = true answers every query,
\* whatever the entry argument and whatever the entry reaches, with the
\* complete annotation map: one pair for each annotated node of the graph.
C11_SinglePageReturnsAll ==
    (op = "get_next_dynamic_imports_for_endpoint" /\ is_single_page) =>
        /\ result.ok
        /\ {kv[1] : kv \in Range(result.value)} =
               {m \in NodeSet(graph) : annot[m] # 0}
        /\ \A i, j \in DOMAIN result.value :
               result.value[i][1] = result.value[j][1] => i = j
        /\ \A kv \in Range(result.value) : kv[2] = <<"import", annot[kv[1]]>>
        /\ \A e \in Modules :
               NextDynamicImportsForEndpoint(graph, is_single_page, e) = result

\* the entry is no key of the entries map and an annotated node is out of
\* its reach, and the map is returned all the same
C11_Witness ==
    /\ op = "get_next_dynamic_imports_for_endpoint"
    /\ is_single_page
    /\ entry \notin DOMAIN graph.entries
    /\ result.ok
    /\ \E kv \in Range(result.value) : kv[1] \notin ReferenceClosure({entry})
    /\ Len(result.value) >= 2

(***************************************************************************)
(* The chain of graphs of an endpoint (NextMode::Development).             *)
(***************************************************************************)
\* the lists of at most n different modules of S
DistinctLists(S, n) ==
    {l \in UNION {[1..k -> S] : k \in 0..n} :
        \A i, j \in DOMAIN l : l[i] = l[j] => i = j}

\* find_server_entries: server utility and server component modules found
\* below the endpoint
FindServerEntries(e) ==
    {se \in [server_utils : DistinctLists(ReferenceClosure({e}), MaxServerUtils),
             server_component_entries :
                 DistinctLists(ReferenceClosure({e}), MaxServerComponents)] :
        Range(se.server_utils) \cap Range(se.server_component_entries) = {}}

\* the module names are interchangeable, so the endpoint is module 1
Endpoint == 1

InitEndpoint ==
    /\ refs \in RefRelations
    /\ isMap \in {{}, {NumModules}}
    /\ kind = [m \in Modules |-> "None"]
    /\ annot = [m \in Modules |-> 0]
    /\ \E se \in FindServerEntries(Endpoint) :
          /\ server_utils = se.server_utils
          /\ server_component_entries = se.server_component_entries
    /\ InitState

ReducedGraphsForEndpoint ==
    /\ op = "init"
    /\ get_reduced_graphs_for_endpoint(Endpoint)

\* the views are constructed and not queried yet
HasViews ==
    /\ graphs # <<>>
    /\ IsBuilt \/ op = "get_reduced_graphs_for_endpoint"

ReducedNextDynamicQuery ==
    /\ HasViews
    /\ reduced_get_next_dynamic_imports_for_endpoint(Endpoint)

ReducedServerActionsQuery ==
    /\ HasViews
    /\ reduced_get_server_actions_for_endpoint(Endpoint)

ReducedClientReferencesQuery ==
    /\ HasViews
    /\ reduced_get_client_references_for_endpoint(Endpoint)

NextEndpoint ==
    \/ ReducedGraphsForEndpoint
    \/ ReducedNextDynamicQuery
    \/ ReducedServerActionsQuery
    \/ ReducedClientReferencesQuery

SpecEndpoint == InitEndpoint /\ [][NextEndpoint]_vars

IsChain == op = "get_reduced_graphs_for_endpoint"

\* the entries the graph at place i of the chain was built from
ChainEntries(i) ==
    IF i = 1 THEN server_utils
    ELSE IF i = Len(graphs) THEN <<root>>
    ELSE <<server_component_entries[i - 1]>>

\* C12: in the chain of an endpoint, the only modules that are nodes of two
\* graphs are the entries the later graph was built from.
C12_SharedNodesAreEntries ==
    IsChain =>
        \A i, j \in DOMAIN graphs :
            i < j => NodeSet(graphs[i]) \cap NodeSet(graphs[j]) \subseteq Range(ChainEntries(j))

\* C12 amended: ... or the endpoint module, the root of every graph.
C12_SharedNodesAreEntriesOrRoot ==
    IsChain =>
        \A i, j \in DOMAIN graphs :
            i < j => NodeSet(graphs[i]) \cap NodeSet(graphs[j])
                        \subseteq Range(ChainEntries(j)) \cup {root}

\* a server component is a node of an earlier graph and of its own, and a
\* module it references was left to the earlier graph
C12_Witness ==
    /\ IsChain
    /\ \E i, j \in DOMAIN graphs :
          /\ i < j
          /\ j < Len(graphs)
          /\ \E c \in NodeSet(graphs[i]) \cap NodeSet(graphs[j]) :
                /\ c # root
                /\ \E t \in ReferenceTargets(c) :
                      t \in NodeSet(graphs[i]) \ NodeSet(graphs[j])

(***************************************************************************)
(* ReducedGraphs over the one graph of the application (NextMode::Build).  *)
(***************************************************************************)
\* one module of every kind
KindSample ==
    [m \in Modules |->
        CASE m = 2 -> "ServerComponent"
          [] m = 3 -> "EcmascriptClientReference"
          [] m = 4 -> "CssClientReference"
          [] OTHER -> "None"]

InitReduced ==
    /\ refs \in RefRelations
    /\ isMap = {}
    /\ kind \in {[m \in Modules |-> "None"], KindSample}
    /\ annot \in [Modules -> 0..NumAnnot]
    /\ server_utils = <<>>
    /\ server_component_entries = <<>>
    /\ InitState

\* an entry of the application and a module that is none
ReducedNextDynamicQueryAny ==
    /\ HasViews
    /\ \E e \in {1, NumModules} : reduced_get_next_dynamic_imports_for_endpoint(e)

ReducedServerActionsQueryAny ==
    /\ HasViews
    /\ \E e \in {1, NumModules} : reduced_get_server_actions_for_endpoint(e)

ReducedClientReferencesQueryAny ==
    /\ HasViews
    /\ \E e \in {1, NumModules} : reduced_get_client_references_for_endpoint(e)

NextReduced ==
    \/ ViewsForApp
    \/ ReducedNextDynamicQueryAny
    \/ ReducedServerActionsQueryAny
    \/ ReducedClientReferencesQueryAny

SpecReduced == InitReduced /\ [][NextReduced]_vars

\* C13: with exactly one view, each of the three queries of ReducedGraphs
\* returns what that view's own query returns for the entry, its failure
\* included.
C13_SingleViewDelegates ==
    Len(graphs) = 1 =>
        /\ op = "ReducedGraphs::get_next_dynamic_imports_for_endpoint" =>
              /\ result = NextDynamicImportsForEndpoint(graphs[1], is_single_page, entry)
              /\ result.ok = (is_single_page \/ entry \in DOMAIN graphs[1].entries)
        /\ op = "ReducedGraphs::get_server_actions_for_endpoint" =>
              /\ result \in ServerActionsForEndpoint(graphs[1], is_single_page, entry)
              /\ result.ok = (is_single_page \/ entry \in DOMAIN graphs[1].entries)
        /\ op = "ReducedGraphs::get_client_references_for_endpoint" =>
              /\ result = ClientReferencesForEndpoint(
                              graphs[1], MapClientReferences(graphs[1]), entry).result
              /\ result.ok = (entry \in DOMAIN graphs[1].entries)

\* the one view fails for a module that is no entry, and so does the query
C13_Witness ==
    /\ Len(graphs) = 1
    /\ op = "ReducedGraphs::get_next_dynamic_imports_for_endpoint"
    /\ entry \in NodeSet(graphs[1]) \ DOMAIN graphs[1].entries
    /\ annot[entry] # 0
    /\ ~result.ok

(***************************************************************************)
(* The work stack of traverse_edges_from_entry.                            *)
(***************************************************************************)
Pushes(node) ==
    Cardinality({i \in DOMAIN stack_log :
                    stack_log[i].event = "push" /\ stack_log[i].node = node})

Pops(node) ==
    Cardinality({i \in DOMAIN stack_log :
                    stack_log[i].event = "pop" /\ stack_log[i].node = node})

Expansions(node) ==
    Cardinality({i \in DOMAIN stack_log :
                    /\ stack_log[i].event = "pop"
                    /\ stack_log[i].node = node
                    /\ stack_log[i].expands})

\* the visitor invocations that make the walk push the node of module m
PushingCalls(m) ==
    Cardinality({i \in 2..Len(calls) :
                    calls[i].module = m /\ calls[i].action = "Continue" /\ calls[i].fresh})

\* C14: during a walk every node is pushed onto the stack at most once and
\* popped from it at most once.
C14_PushedAndPoppedOnce ==
    WalkRuns =>
        \A n \in DOMAIN graph.nodes : Pushes(n) <= 1 /\ Pops(n) <= 1

\* C14 amended: every node is expanded at most once, so the visitor is invoked
\* at most once for each edge; a node is pushed once for each invocation
\* answered Continue for an edge into it while it is undiscovered (the entry
\* once more, at the start), and popped as often as it was pushed.
C14_ExpandedOnce ==
    WalkRuns =>
        \A n \in DOMAIN graph.nodes :
            /\ Expansions(n) <= 1
            /\ Cardinality({i \in DOMAIN calls : calls[i].parent = graph.nodes[n]})
                  <= OutDegree(graph, n)
            /\ Pushes(n) = PushingCalls(graph.nodes[n])
                              + (IF n = graph.entries[entry] THEN 1 ELSE 0)
            /\ Pops(n) <= Pushes(n)
            /\ op = "traverse_edges_done" => Pops(n) = Pushes(n)

\* a finished walk that pushed and popped a node twice and expanded it once
C14_Witness ==
    /\ op = "traverse_edges_done"
    /\ result.ok
    /\ \E n \in DOMAIN graph.nodes :
          /\ Pushes(n) = 2
          /\ Pops(n) = 2
          /\ Expansions(n) = 1
          /\ OutDegree(graph, n) >= 1

(***************************************************************************)
(* The edges of a constructed graph.                                       *)
(***************************************************************************)
\* the edges from the node of module p to the node of module c
EdgesBetween(g, p, c) ==
    Cardinality({i \in DOMAIN g.edges :
                    g.nodes[g.edges[i][1]] = p /\ g.nodes[g.edges[i][2]] = c})

\* the root got its node after the walk, which did not reach it
RootAdded ==
    root # None /\ root \notin Range(entries) /\ root \in DOMAIN graph.entries

\* C15: a constructed graph has no two edges with the same parent and child.
C15_NoParallelEdges ==
    IsBuilt =>
        \A i, j \in DOMAIN graph.edges : graph.edges[i] = graph.edges[j] => i = j

\* C15 amended: a node the walk reached has one edge to a child for each time
\* its reference list names the child, unless the child is a sourcemap or was
\* skipped as visited; a root added after the walk has one edge to an entry
\* for each time the entries name it.
C15_OneEdgePerReference ==
    IsBuilt =>
        \A p \in NodeSet(graph), c \in Modules :
            IF RootAdded /\ p = root
            THEN EdgesBetween(graph, p, c) = Occurrences(entries, c)
            ELSE EdgesBetween(graph, p, c) =
                     IF c \in isMap \/ c \in visited_modules THEN 0
                     ELSE Occurrences(refs[p], c)

\* a module names the same target twice and the graph has both edges
C15_Witness ==
    /\ IsBuilt
    /\ \E p \in NodeSet(graph), c \in NodeSet(graph) :
          /\ p # c
          /\ ~(RootAdded /\ p = root)
          /\ Occurrences(refs[p], c) = 2
          /\ EdgesBetween(graph, p, c) = 2

\* C16: whatever the visited set, when P and C are nodes of the graph and P
\* references C, which is no sourcemap, the graph has an edge from P to C,
\* also when C is an entry that is in the visited set.
C16_EdgeForEveryReference ==
    IsBuilt =>
        \A p \in NodeSet(graph), c \in NodeSet(graph) :
            c \in ReferenceTargets(p) => EdgesBetween(graph, p, c) >= 1

\* C16 amended: the edge exists if and only if C is not in the visited set,
\* for every P the walk reached; a root added after the walk has edges to
\* the entries only.
C16_EdgeUnlessVisited ==
    IsBuilt =>
        \A p \in NodeSet(graph), c \in NodeSet(graph) :
            c \in ReferenceTargets(p) =>
                IF RootAdded /\ p = root
                THEN EdgesBetween(graph, p, c) >= 1 <=> c \in Range(entries)
                ELSE EdgesBetween(graph, p, c) >= 1 <=> c \notin visited_modules

\* an entry that is in the visited set is a node, and so is a module that
\* references it, with no edge between them; another module is referenced
\* by two nodes and has an edge from each
C16_Witness ==
    /\ IsBuilt
    /\ \E p \in NodeSet(graph), c \in Range(entries) \cap visited_modules :
          /\ p \notin {c, root}
          /\ c \in ReferenceTargets(p)
          /\ EdgesBetween(graph, p, c) = 0
          /\ \E q \in NodeSet(graph), d \in NodeSet(graph) :
                /\ d \notin {p, q, c}
                /\ q # p
                /\ EdgesBetween(graph, p, d) = 1
                /\ EdgesBetween(graph, q, d) = 1

(***************************************************************************)
(* The order and the seeds of the chain of an endpoint.                    *)
(***************************************************************************)
\* the nodes of the graphs before place i of the chain
SeedOf(i) == UNION {NodeSet(graphs[j]) : j \in 1..(i - 1)}

\* C17: for N server component entries the chain has N + 2 graphs: the graph
\* of the server utilities, built with an empty visited set, one graph for
\* each server component entry in route order and the graph of the endpoint,
\* each of them built with the nodes of all graphs before it as visited set.
C17_ChainOrderAndSeeds ==
    IsChain =>
        /\ Len(graphs) = Len(server_component_entries) + 2
        /\ \A i \in DOMAIN graphs :
              /\ graphs[i] = NewInner(root, ChainEntries(i), SeedOf(i))
              /\ Range(ChainEntries(i)) \subseteq DOMAIN graphs[i].entries
              /\ Range(ChainEntries(i)) \subseteq NodeSet(graphs[i])
        /\ visited_modules = SeedOf(Len(graphs))

\* two server components: the second one references a module that only the
\* graph of the server utilities holds
C17_Witness ==
    /\ IsChain
    /\ Len(graphs) = 4
    /\ \E m \in NodeSet(graphs[1]) \ (NodeSet(graphs[2]) \cup NodeSet(graphs[3])) :
          m \in ReferenceTargets(server_component_entries[2])

\* the modules some graph of the chain has a node for
ChainNodes == UNION {NodeSet(graphs[i]) : i \in DOMAIN graphs}

\* C18: the graphs of the chain together hold exactly the modules reachable,
\* over references to non-sourcemaps, from the server utilities, the server
\* component entries and the endpoint.
C18_ChainCoversReachable ==
    IsChain =>
        ChainNodes = ReferenceClosure(Range(server_utils)
                                        \cup Range(server_component_entries)
                                        \cup {root})

\* the graphs of the server utilities and of a server component contribute
\* modules of their own, the endpoint graph one that only the endpoint
\* references, and a reference to a sourcemap is left out
C18_Witness ==
    /\ IsChain
    /\ Len(graphs) >= 3
    /\ \A i \in DOMAIN graphs : NodeSet(graphs[i]) \ SeedOf(i) # {}
    /\ \E m \in ChainNodes : (Range(refs[m]) \cap isMap) \ ChainNodes # {}

\* C19: the endpoint is a key of the entries map of every graph of the chain,
\* whatever the modules reference, so that every view can look it up.
C19_EndpointIsEntryOfEveryGraph ==
    IsChain => \A i \in DOMAIN graphs : get_entry(graphs[i], root) # None

\* the query of the client references of the endpoint over the chain succeeds
C19_ClientReferencesOfEndpointFound ==
    op = "ReducedGraphs::get_client_references_for_endpoint" => result.ok

(***************************************************************************)
(* The walk of the client references view over a graph with a root.        *)
(***************************************************************************)
InitClientWalk ==
    /\ refs \in RefRelations
    /\ isMap = {}
    /\ kind \in [Modules -> {"None", "EcmascriptClientReference", "CssClientReference"}]
    /\ annot = [m \in Modules |-> 0]
    /\ server_utils = <<>>
    /\ server_component_entries = <<>>
    /\ InitState

\* the module names are interchangeable: the root is the last module and the
\* entries are the first ones
ViewsForRootedGraph ==
    /\ op = "init"
    /\ \E es \in {<<1>>, <<1, 2>>} : views_for_endpoint(NumModules, es, {})

ClientReferencesQueryEntryOrRoot ==
    /\ IsBuilt
    /\ \E e \in {1, NumModules} : get_client_references_for_endpoint(e)

NextClientWalk == ViewsForRootedGraph \/ ClientReferencesQueryEntryOrRoot

SpecClientWalk == InitClientWalk /\ [][NextClientWalk]_vars

\* C20: in a query of the client references view no visitor invocation and
\* no emitted record has an ecmascript or css client reference as parent,
\* unless that module is the queried entry.
C20_ClientReferencesNotExpanded ==
    op = "get_client_references_for_endpoint" =>
        /\ \A i \in DOMAIN calls :
              (calls[i].parent # None /\ IsClientReference(calls[i].parent))
                  => calls[i].parent = entry
        /\ result.ok =>
              \A r \in Range(result.client_references) :
                  (r.parent_module # None /\ IsClientReference(r.parent_module))
                      => r.parent_module = entry

\* a client reference that is not the entry has references of its own, the
\* visitor is notified of it from two parents and never with it as parent
C20_Witness ==
    /\ op = "get_client_references_for_endpoint"
    /\ result.ok
    /\ \E c \in NodeSet(graph) \ {entry} :
          /\ IsClientReference(c)
          /\ \E t \in ReferenceTargets(c) : t \in NodeSet(graph) \ {c}
          /\ \E i, j \in DOMAIN calls :
                /\ calls[i].module = c
                /\ calls[j].module = c
                /\ calls[i].parent # calls[j].parent
          /\ \A i \in DOMAIN calls : calls[i].parent # c

(***************************************************************************)
(* ReducedGraphs over the chain of an endpoint and over the one graph of   *)
(* the application, with annotated modules.                                *)
(***************************************************************************)
\* the annotations of the modules: none, or one of two server actions of the
\* RSC layer (the endpoint none or the first one); the modules but the
\* endpoint are interchangeable, so they are annotated in ascending order
AnnotationValues == {0, 1, 3}

Annotations ==
    {a \in [Modules -> AnnotationValues] :
        /\ a[Endpoint] <= 1
        /\ \A m \in 2..(NumModules - 1) : a[m] <= a[m + 1]}

InitMerge ==
    /\ refs \in RefRelations
    /\ isMap = {}
    /\ kind = [m \in Modules |-> "None"]
    /\ \E se \in FindServerEntries(Endpoint) :
          /\ server_utils = se.server_utils
          /\ server_component_entries = se.server_component_entries
    /\ annot \in Annotations
    /\ InitState

\* the entries of the application: the endpoint and at most one other module
AppEntryLists ==
    {<<Endpoint>>} \cup UNION {{<<Endpoint, m>>, <<m, Endpoint>>} : m \in {2, NumModules}}

\* NextMode::Build does not ask for the server entries of the endpoint
ViewsForAppOfEndpoint ==
    /\ op = "init"
    /\ server_utils = <<>>
    /\ server_component_entries = <<>>
    /\ \E es \in AppEntryLists : views_for_app(es)

NextMerge ==
    \/ ReducedGraphsForEndpoint
    \/ ViewsForAppOfEndpoint
    \/ ReducedNextDynamicQuery
    \/ ReducedServerActionsQuery

SpecMerge == InitMerge /\ [][NextMerge]_vars

\* what the views of ReducedGraphs may answer for the entry
ViewActions(i) == ServerActionsForEndpoint(graphs[i], is_single_page, entry)

ViewImports(i) == NextDynamicImportsForEndpoint(graphs[i], is_single_page, entry)

Keys(pairs) == {kv[1] : kv \in Range(pairs)}

\* C21: with more than one view, the merged server actions have exactly the
\* hashes of the views' results, and a hash maps to the action one of the
\* views that have it returned; the merged dynamic imports have exactly the
\* keys of the views' results, each once and with the value of such a view.
C21_MergedUnion ==
    Len(graphs) > 1 =>
        /\ op = "ReducedGraphs::get_server_actions_for_endpoint" =>
              /\ result.ok
              /\ \A i \in DOMAIN graphs : \A r \in ViewActions(i) :
                    r.ok /\ DOMAIN r.actions \subseteq DOMAIN result.actions
              /\ \A h \in DOMAIN result.actions :
                    \E i \in DOMAIN graphs : \E r \in ViewActions(i) :
                        /\ h \in DOMAIN r.actions
                        /\ result.actions[h] = r.actions[h]
        /\ op = "ReducedGraphs::get_next_dynamic_imports_for_endpoint" =>
              /\ result.ok
              /\ Keys(result.value) = UNION {Keys(ViewImports(i).value) : i \in DOMAIN graphs}
              /\ \A i, j \in DOMAIN result.value :
                    result.value[i][1] = result.value[j][1] => i = j
              /\ \A kv \in Range(result.value) :
                    \E i \in DOMAIN graphs : kv \in Range(ViewImports(i).value)

\* two views have the same hash with different actions and a third view has
\* another hash
C21_Witness ==
    /\ op = "ReducedGraphs::get_server_actions_for_endpoint"
    /\ Len(graphs) > 2
    /\ result.ok
    /\ Cardinality(DOMAIN result.actions) = 2
    /\ \E i, j \in DOMAIN graphs, h \in DOMAIN result.actions :
          \E ri \in ViewActions(i), rj \in ViewActions(j) :
              /\ i # j
              /\ h \in DOMAIN ri.actions \cap DOMAIN rj.actions
              /\ ri.actions[h] # rj.actions[h]
    /\ \E i \in DOMAIN graphs :
          \A r \in ViewActions(i) : DOMAIN r.actions # DOMAIN result.actions

(***************************************************************************)
(* Both traversals of a constructed graph, from an entry of the graph or   *)
(* from a module that is none.                                             *)
(***************************************************************************)
TraverseFromEntryCallAt ==
    /\ IsBuilt
    /\ \E e \in {1, NumModules} : traverse_from_entry(e)

NextTraversals == NextWalk \/ TraverseFromEntryCallAt

SpecTraversals == InitTraversal /\ [][NextTraversals]_vars

IsTraversal == op \in {"traverse_from_entry", "traverse_edges", "traverse_edges_done"}

\* C22: traverse_from_entry and traverse_edges_from_entry called with a module
\* that is not a key of the entries map fail without any invocation of the
\* visitor: no module is visited, no (parent, module) pair is delivered (not
\* even (None, entry)) and the walk never starts.
C22_MissingEntryFails ==
    (IsTraversal /\ entry \notin DOMAIN graph.entries) =>
        /\ op # "traverse_edges"
        /\ ~result.ok
        /\ op = "traverse_from_entry" => result.visited = <<>>
        /\ op = "traverse_edges_done" => calls = <<>> /\ stack_log = <<>>

\* the walk is asked for a module that is a node of the graph, with successors,
\* but not an entry
C22_Witness ==
    /\ op = "traverse_edges_done"
    /\ entry \notin DOMAIN graph.entries
    /\ entry \in NodeSet(graph)
    /\ \E e \in Range(graph.edges) : graph.nodes[e[1]] = entry
    /\ ~result.ok
    /\ calls = <<>>

(***************************************************************************)
(* Termination of traverse_edges_from_entry.  The while loop and the for   *)
(* loop are sequential code and the visitor returns, so a step of the walk *)
(* that can be taken is taken.                                             *)
(***************************************************************************)
WalkStep == traverse_edges_pop \/ traverse_edges_visit \/ traverse_edges_return

SpecWalkFair == InitTraversal /\ [][NextWalk]_vars /\ WF_vars(WalkStep)

\* the invocations with the same parent follow one another
OneBatch ==
    \A i, j \in 2..Len(calls) :
        (i < j /\ calls[i].parent = calls[j].parent) =>
            \A k \in i..j : calls[k].parent = calls[i].parent

WalkBounded ==
    WalkRuns =>
        /\ OneBatch
        /\ \A n \in DOMAIN graph.nodes :
              Cardinality({i \in DOMAIN calls : calls[i].parent = graph.nodes[n]})
                  \in {0, OutDegree(graph, n)} \cup (IF walk.node = n THEN 0..OutDegree(graph, n) ELSE {})
        /\ Len(calls) <= 1 + Len(graph.edges)
        /\ Len(stack_log) <= 2 * (1 + Len(graph.edges))

\* C23: in a walk from an entry the outgoing edges of a node are notified in
\* at most one batch, whatever the visitor answers and however often the node
\* is on the stack, so the visitor is invoked at most 1 + |edges| times; and
\* the walk, once started, returns, on graphs with cycles and self-loops too.
C23_WalkTerminates ==
    /\ []WalkBounded
    /\ (op = "traverse_edges") ~> (op = "traverse_edges_done")

\* a finished walk of a graph with a cycle through the entry, in which a node
\* was on the stack twice and the visitor was invoked for the entry and once
\* for every edge
C23_Witness ==
    /\ op = "traverse_edges_done"
    /\ result.ok
    /\ \E n \in DOMAIN graph.nodes : Pushes(n) = 2
    /\ \E i \in 2..Len(calls) : calls[i].module = entry /\ calls[i].parent # entry
    /\ Len(graph.edges) = MaxEdges
    /\ Len(calls) = 1 + Len(graph.edges)

(***************************************************************************)
(* SingleModuleGraph::new_inner, one iteration of its loop at a time.  The *)
(* loop is sequential code and the lookups it awaits return, so an         *)
(* iteration that can be taken is taken.                                   *)
(***************************************************************************)
\* lines 73-76
new_inner_start(r, es, visited) ==
    /\ op' = "new_inner"
    /\ root' = r
    /\ entries' = es
    /\ visited_modules' = visited
    /\ construction' = NewInnerStart(es)
    /\ UNCHANGED <<env, graph, graphs, is_single_page, query>>

\* lines 77-101
new_inner_iterate ==
    /\ op = "new_inner"
    /\ construction.stack # <<>>
    /\ construction' = NewInnerStep(construction, visited_modules)
    /\ UNCHANGED <<env, op, root, entries, visited_modules, graph, graphs,
                   is_single_page, query>>

\* lines 103-123: modules.get(entry).unwrap() panics for an entry without a node
new_inner_return ==
    /\ op = "new_inner"
    /\ construction.stack = <<>>
    /\ IF Range(entries) \subseteq DOMAIN construction.modules
       THEN /\ graph' = NewInnerFinish(root, entries, construction)
            /\ op' = IF root = None THEN "new_with_entries" ELSE "new_with_entries_visited"
       ELSE /\ graph' = graph
            /\ op' = "panic"
    /\ UNCHANGED <<env, root, entries, visited_modules, graphs, construction,
                   is_single_page, query>>

InitConstruction ==
    /\ refs \in RefRelations
    /\ isMap \in {{}, {NumModules - 1}}
    /\ kind = [m \in Modules |-> "None"]
    /\ annot = [m \in Modules |-> 0]
    /\ server_utils = <<>>
    /\ server_component_entries = <<>>
    /\ InitState

\* modules 1 and 2 are interchangeable and module 3 differs from them only in
\* that its path may end in "map": the entries and the visited modules are
\* taken among one or two plain modules and the root
StartEntryLists == UNION {[1..n -> {1, 2, NumModules}] : n \in 0..MaxEntries}

StartVisitedSets == SUBSET {1, NumModules}

\* lines 194-197
NewWithEntriesStarts ==
    /\ op = "init"
    /\ \E es \in StartEntryLists : new_inner_start(None, es, {})

\* lines 200-208, the root being the last module
NewWithEntriesVisitedStarts ==
    /\ op = "init"
    /\ \E es \in StartEntryLists, visited \in StartVisitedSets :
          new_inner_start(NumModules, es, visited)

NewInnerRuns == new_inner_iterate \/ new_inner_return

NextConstruction ==
    \/ NewWithEntriesStarts
    \/ NewWithEntriesVisitedStarts
    \/ new_inner_iterate
    \/ new_inner_return

SpecConstruction ==
    InitConstruction /\ [][NextConstruction]_vars /\ WF_vars(NewInnerRuns)

\* the references new_inner can push: those of the modules that have a node
PushableReferences ==
    SumTo([m \in Modules |->
              IF m \in Range(construction.nodes) THEN Len(refs[m]) ELSE 0], NumModules)

ConstructionSound ==
    /\ op # "panic"
    /\ op = "new_inner" =>
          /\ Len(construction.nodes) <= NumModules
          /\ Len(construction.stack) + Len(construction.edges)
                <= Len(entries) + PushableReferences
    /\ IsBuilt =>
          /\ graph = NewInner(root, entries, visited_modules)
          /\ \A e \in Range(entries) :
                /\ e \in NodeSet(graph)
                /\ e \in DOMAIN graph.entries
                /\ graph.nodes[graph.entries[e]] = e

\* C24: new_inner, once started, returns, whatever the references are (cycles,
\* self-references, duplicate references, duplicate entries); and in the
\* graph it returns every entry is a node and a key of the entries map that
\* maps to that node, also an entry that is in visited_modules.
C24_ConstructionTerminates ==
    /\ []ConstructionSound
    /\ (op = "new_inner") ~> IsBuilt

\* a graph built from a twice-listed entry that is in visited_modules and has
\* a reference to itself, and another entry on a cycle with it
C24_Witness ==
    /\ IsBuilt
    /\ Len(entries) = 2
    /\ \E e \in Range(entries) :
          /\ e \in visited_modules
          /\ e \in Range(refs[e])
          /\ e \in DOMAIN graph.entries
    /\ \E a, b \in NodeSet(graph) :
          /\ a # b
          /\ b \in Range(refs[a])
          /\ a \in Range(refs[b])
          /\ b \notin visited_modules

(***************************************************************************)
(* The two modes of get_reduced_graphs_for_endpoint, for one endpoint.     *)
(***************************************************************************)
\* the same keys with the same values
SameImports(a, b) ==
    /\ Keys(a) = Keys(b)
    /\ \A kv \in Range(a), kw \in Range(b) : kv[1] = kw[1] => kv[2] = kw[2]

\* lines 683-694, 566-571: what NextMode::Build answers for the endpoint
BuildImports(es) ==
    ReducedNextDynamicImports(<<NewInner(None, es, {})>>, FALSE, Endpoint)

\* lines 676-682, 572-590: what NextMode::Development answers for the endpoint
DevelopmentImports(se) ==
    ReducedNextDynamicImports(
        GetModuleGraphForEndpoint(Endpoint, se.server_utils,
                                  se.server_component_entries).graphs,
        TRUE, Endpoint)

\* an endpoint without server utilities and without layout segments
NoServerEntries == [server_utils |-> <<>>, server_component_entries |-> <<>>]

IsImportsQuery ==
    op = "ReducedGraphs::get_next_dynamic_imports_for_endpoint" /\ entry = Endpoint

\* C25: for one endpoint and one annotation of the modules, with server
\* utilities and server component entries that the endpoint reaches, the
\* merged answer of the single-page views over the chain of graphs and the
\* answer of the one view over the graph of the whole application, filtered
\* by what the endpoint reaches, both succeed and have the same keys with the
\* same value for each key.  The merged answer of every chain is compared with
\* the answer over every graph of the application, and the answer over a
\* graph of the application with that of the chain of an endpoint that has no
\* server entries.
C25_ModesAgree ==
    IsImportsQuery =>
        /\ result.ok
        /\ is_single_page =>
              \A es \in AppEntryLists :
                  LET app == BuildImports(es)
                  IN  app.ok /\ SameImports(result.value, app.value)
        /\ ~is_single_page =>
              LET merged == DevelopmentImports(NoServerEntries)
              IN  merged.ok /\ SameImports(result.value, merged.value)

\* the chain has a graph for a server utility or a server component, the
\* endpoint has an import of its own, which every graph of the chain holds,
\* another import is found further down, and the application has an import
\* that the endpoint does not reach
C25_Witness ==
    /\ IsImportsQuery
    /\ is_single_page
    /\ Len(graphs) >= 3
    /\ result.ok
    /\ Len(result.value) >= 2
    /\ annot[Endpoint] # 0
    /\ \E m \in {2, NumModules} : annot[m] # 0 /\ m \notin ReferenceClosure({Endpoint})


====
